---- MODULE Spec2Model ----
(***************************************************************************)
(* A model of pyseis: the windowed source-tracking loop of                 *)
(* pyseis/spatial_track.py and the topography-corrected distance engine    *)
(* of bin/spatial_distance.py.                                             *)
(*                                                                         *)
(* Numbers.  Sample counts and indices are integers.  A time in seconds    *)
(* is an exact fraction <<num, den>>.  The model computes in exact         *)
(* arithmetic; the rounding of IEEE doubles is not modelled.               *)
(*                                                                         *)
(* spatial_track: the values of the waveform, of the correlation and of    *)
(* the optimizer's iterate are not modelled; a statistic is held as the    *)
(* record of the array and window it was taken from, and minimize() may    *)
(* report success or failure for any window.  Plotting is left out.        *)
(*                                                                         *)
(* spatial_distance: dem is always a DatasetReader, with the transform     *)
(* from_origin(0, rows * res, res, res).  xy_dem is the (rows * cols, 2)   *)
(* array of cell centres in row-major order, which lines 57-58 index as    *)
(* xy_dem[j * cols + k].  The messages printed are left out.               *)
(***************************************************************************)
EXTENDS Integers, Sequences, FiniteSets, Bags, TLC

\* ------------------------------------------------------------------ bounds
MaxT == 6          \* samples per channel, data.shape[1]
MaxLag == 3        \* max_lag
MaxRate == 2       \* sampling_rate

MaxCells == 4      \* cells of the DEM grid, rows * cols

\* The elevations a DEM cell takes
Elevations == {0, 1}

\* data.shape[0]: the number of channels (stations) of the waveform matrix
Channels == {1, 2}

\* stations.shape[0]: the number of stations handed to spatial_distance
StationCounts == {1, 2}

\* World coordinates are held doubled, so that cell centres are integers:
\* dem.res is CellSize / 2 world units, and a cell is CellSize doubled units.
CellSize == 2

VARIABLES
    \* ---- spatial_track: arguments
    data_shape,        \* <<channels, T>>
    dm_rows,           \* distance_map.shape[0]
    sampling_rate,
    max_lag,
    time_window,
    overlap,
    \* ---- spatial_track: locals
    pc_t,              \* "start", "loop", "returned", "raised"
    raised_t,          \* the exception that ended the call, "" when none
    num_windows,
    times,
    i,
    mean_coordinates,
    sd_coordinates,
    mean_amplitudes,
    sd_amplitudes,
    mean_variances,
    sd_variances,
    res_success,       \* res.success of each minimize() call, in window order
    results,
    \* ---- spatial_distance: arguments
    dem_array,         \* dem.read(1): rows of elevations, row 1 northmost
    dem_nan,           \* the cells <<row, col>> whose elevation is NaN
    stations,          \* sequence of <<x, y>>, doubled world coordinates
    topography,
    maps,
    matrix,
    aoi,               \* [none |-> TRUE] or [none |-> FALSE, ext |-> <<xmin, xmax, ymin, ymax>>]
    \* ---- spatial_distance: locals
    pc_d,              \* "start", "maps", "matrix", "returned", "raised"
    raised_d,          \* the exception that ended the call, "" when none
    maps_out,          \* the list `maps` built by part 1
    M                  \* the station distance matrix of part 2

trackVars == <<data_shape, dm_rows, sampling_rate, max_lag, time_window,
               overlap, pc_t, raised_t, num_windows, times, i,
               mean_coordinates, sd_coordinates, mean_amplitudes,
               sd_amplitudes, mean_variances, sd_variances, res_success,
               results>>

distVars == <<dem_array, dem_nan, stations, topography, maps, matrix, aoi,
              pc_d, raised_d, maps_out, M>>

vars == <<trackVars, distVars>>

\* ------------------------------------------------------- integer helpers
Min(a, b) == IF a <= b THEN a ELSE b
Max(a, b) == IF a >= b THEN a ELSE b

\* int(a / b) of Python for integers a and b > 0: true division, then
\* truncation toward zero.
IntDiv(a, b) == IF a >= 0 THEN a \div b ELSE 0 - ((0 - a) \div b)

\* The number of elements of the Python slice s[lo:hi] of a sequence of
\* length len: negative indices count from the end, all are clamped.
SliceBound(len, k) == IF k < 0 THEN Max(0, k + len) ELSE Min(k, len)
SliceLen(len, lo, hi) == Max(0, SliceBound(len, hi) - SliceBound(len, lo))

\* ---------------------------------------------------------- spatial_track
T == data_shape[2]

\* num_windows = int((data.shape[1] - time_window) / (time_window - overlap)) + 1
NumWindowsNoPlusOne(t, tw, ov) == IntDiv(t - tw, tw - ov)
NumWindows(t, tw, ov) == IntDiv(t - tw, tw - ov) + 1

\* np.linspace(0, data.shape[1] / sampling_rate, num_windows): element k
\* (0-based) is k * (T / sampling_rate) / (num_windows - 1), the single
\* element of a one-element result is the start, 0.
Linspace0(stopNum, stopDen, n) ==
    [k \in 1..n |-> IF n = 1 THEN <<0, 1>>
                    ELSE <<(k - 1) * stopNum, stopDen * (n - 1)>>]

\* start_idx = int(i * (time_window - overlap))
StartIdxNoOverlap(k) == k * time_window
StartIdx(k) == k * (time_window - overlap)
EndIdx(k) == StartIdx(k) + time_window

\* window_data = data[:, start_idx:end_idx]: the samples the slice holds
WindowSize(k) == SliceLen(T, StartIdx(k), EndIdx(k))

\* cross_correlation: np.correlate(x, y, "full") of two n-vectors has 2n-1
\* elements; the function returns cc[len(cc)//2 - max_lag : len(cc)//2 + max_lag + 1]
CcLen(n) == 2 * n - 1
CcSliceLen(n) ==
    SliceLen(CcLen(n), CcLen(n) \div 2 - max_lag, CcLen(n) \div 2 + max_lag + 1)

\* cc_matrix[j] = ...: a row of 2*max_lag+1 elements takes a sequence of that
\* length, or of length 1 by broadcasting.
CcRowFits(n) == CcSliceLen(n) = 2 * max_lag + 1 \/ CcSliceLen(n) = 1

\* source_signal - predicted_signal: shapes (n,) and (dm_rows,) broadcast
BroadcastOk(n) == n = dm_rows \/ n = 1 \/ dm_rows = 1

\* A summary statistic of an array: which statistic, of which array, and the
\* window the array was cut from.
Stat(kind, of, k) ==
    [kind |-> kind, of |-> of, window |-> k,
     start_idx |-> StartIdx(k), end_idx |-> EndIdx(k), size |-> WindowSize(k)]

NoResults == [time |-> <<>>,
              mean |-> [x |-> <<>>, y |-> <<>>, a_0 |-> <<>>, var |-> <<>>],
              sd   |-> [x |-> <<>>, y |-> <<>>, a_0 |-> <<>>, var |-> <<>>]]

TrackArgs ==
    /\ data_shape \in Channels \X (1..MaxT)
    /\ time_window \in 1..(MaxT + 1)
    /\ overlap \in 0..(MaxT + 1)
    /\ overlap <= time_window
    /\ dm_rows \in {1, time_window}
    /\ sampling_rate \in 1..MaxRate
    /\ max_lag \in 0..MaxLag

TrackLocalsInit ==
    /\ pc_t = "start"
    /\ raised_t = ""
    /\ num_windows = 0
    /\ times = <<>>
    /\ i = 0
    /\ mean_coordinates = <<>>
    /\ sd_coordinates = <<>>
    /\ mean_amplitudes = <<>>
    /\ sd_amplitudes = <<>>
    /\ mean_variances = <<>>
    /\ sd_variances = <<>>
    /\ res_success = <<>>
    /\ results = NoResults

\* spatial_distance is not running.
DistIdle ==
    /\ dem_array = <<<<0>>>>
    /\ dem_nan = {}
    /\ stations = <<>>
    /\ topography = TRUE
    /\ maps = TRUE
    /\ matrix = TRUE
    /\ aoi = [none |-> TRUE, ext |-> <<0, 0, 0, 0>>]
    /\ pc_d = "idle"
    /\ raised_d = ""
    /\ maps_out = <<>>
    /\ M = [none |-> TRUE, val |-> <<>>]

InitTrack == TrackArgs /\ TrackLocalsInit /\ DistIdle

trackArgs == <<data_shape, dm_rows, sampling_rate, max_lag, time_window, overlap>>
trackLists == <<mean_coordinates, sd_coordinates, mean_amplitudes,
                sd_amplitudes, mean_variances, sd_variances, res_success>>

Raise(exc) ==
    /\ pc_t' = "raised"
    /\ raised_t' = exc

\* Lines 59-68: num_windows, times and the empty accumulators.
TrackSetup ==
    /\ pc_t = "start"
    /\ IF time_window - overlap = 0
       THEN /\ Raise("ZeroDivisionError")
            /\ UNCHANGED <<num_windows, times>>
       ELSE LET n == NumWindows(T, time_window, overlap) IN
            /\ num_windows' = n
            /\ IF n < 0
               THEN /\ Raise("ValueError")      \* np.linspace: negative num
                    /\ UNCHANGED times
               ELSE /\ times' = Linspace0(T, sampling_rate, n)
                    /\ pc_t' = "loop"
                    /\ UNCHANGED raised_t
    /\ UNCHANGED <<trackArgs, i, trackLists, results, distVars>>

\* Lines 70-98: one iteration of the loop over the windows.
ProcessWindow ==
    /\ pc_t = "loop"
    /\ i < num_windows
    /\ LET n == WindowSize(i) IN
       IF n = 0 \/ ~CcRowFits(n) \/ ~BroadcastOk(n)
       THEN /\ Raise("ValueError")
            /\ UNCHANGED <<i, trackLists>>
       ELSE \E success \in BOOLEAN :
            /\ res_success' = Append(res_success, success)
            /\ mean_coordinates' = Append(mean_coordinates, Stat("mean", "res.x", i))
            /\ sd_coordinates' = Append(sd_coordinates, Stat("std", "res.x", i))
            /\ mean_amplitudes' = Append(mean_amplitudes, Stat("mean", "window_data", i))
            /\ sd_amplitudes' = Append(sd_amplitudes, Stat("std", "window_data", i))
            /\ mean_variances' = Append(mean_variances, Stat("mean", "cc_matrix", i))
            /\ sd_variances' = Append(sd_variances, Stat("std", "cc_matrix", i))
            /\ i' = i + 1
            /\ UNCHANGED <<pc_t, raised_t>>
    /\ UNCHANGED <<trackArgs, num_windows, times, results, distVars>>

\* Lines 100-114 and 160: the result dictionary.
TrackReturn ==
    /\ pc_t = "loop"
    /\ i >= num_windows
    /\ results' = [time |-> times,
                   mean |-> [x |-> mean_coordinates, y |-> mean_coordinates,
                             a_0 |-> mean_amplitudes, var |-> mean_variances],
                   sd   |-> [x |-> sd_coordinates, y |-> sd_coordinates,
                             a_0 |-> sd_amplitudes, var |-> sd_variances]]
    /\ pc_t' = "returned"
    /\ UNCHANGED <<trackArgs, raised_t, num_windows, times, i, trackLists, distVars>>

NextTrack == TrackSetup \/ ProcessWindow \/ TrackReturn

SpecTrack == InitTrack /\ [][NextTrack]_vars

\* ------------------------------------------------------- spatial_distance
Rows(d) == Len(d)
Cols(d) == Len(d[1])

\* dem.transform is from_origin(0, rows * res, res, res): west edge 0, north
\* edge North(d), square cells.
North(d) == Rows(d) * CellSize

\* xy_dem: rasterio.transform.xy(dem.transform, rows, cols) stacked to one
\* (x, y) row per cell, row-major; cell (j, k), 0-based, is row j * cols + k
\* and holds the cell's centre.
XyDem(d) ==
    [m \in 1..(Rows(d) * Cols(d)) |->
        LET j == (m - 1) \div Cols(d)
            k == (m - 1) % Cols(d)
        IN  <<k * CellSize + CellSize \div 2,
              North(d) - (j * CellSize + CellSize \div 2)>>]

SetMin(S) == CHOOSE v \in S : \A w \in S : v <= w
SetMax(S) == CHOOSE v \in S : \A w \in S : v >= w
Column(s, c) == {s[m][c] : m \in DOMAIN s}

\* np.min(xy_dem[:, 0]), np.max(xy_dem[:, 0]), np.min(xy_dem[:, 1]), np.max(xy_dem[:, 1])
DemExtent(d) ==
    LET xy == XyDem(d)
    IN  <<SetMin(Column(xy, 1)), SetMax(Column(xy, 1)),
          SetMin(Column(xy, 2)), SetMax(Column(xy, 2))>>

\* Lines 24-27: the test that raises "Some station coordinates are outside
\* DEM extent!".
StationsOutsideNoYMin(st, d) ==
    LET e == DemExtent(d)
    IN  \/ SetMin(Column(st, 1)) < e[1]
        \/ SetMax(Column(st, 1)) > e[2]
        \/ SetMax(Column(st, 2)) > e[4]
StationsOutside(st, d) ==
    LET e == DemExtent(d)
    IN  \/ SetMin(Column(st, 1)) < e[1]
        \/ SetMax(Column(st, 1)) > e[2]
        \/ SetMin(Column(st, 2)) < e[3]
        \/ SetMax(Column(st, 2)) > e[4]

\* Lines 30-33: aoi_ext
AoiExt(a, d) == IF a.none THEN DemExtent(d) ELSE a.ext

\* Lines 35-38: the test that raises "AOI extent is beyond DEM extent!".
AoiBeyond(a, d) ==
    LET e == DemExtent(d)
        x == AoiExt(a, d)
    IN  \/ x[1] < e[1]
        \/ x[2] > e[2]
        \/ x[3] < e[3]
        \/ x[4] > e[4]

\* Lines 44-45: the boolean mask over the rows of xy_dem
AoiMask(a, d) ==
    LET xy == XyDem(d)
        x == AoiExt(a, d)
    IN  [m \in DOMAIN xy |->
            /\ xy[m][1] >= x[1]
            /\ xy[m][1] <= x[2]
            /\ xy[m][2] >= x[3]
            /\ xy[m][2] <= x[4]]

\* aoi_array[mask] = 1 with aoi_array of the DEM's shape: a one-dimensional
\* boolean index selects along axis 0, whose length it must match.
MaskFits(d) == Rows(d) * Cols(d) = Rows(d)

\* aoi_array after the assignment: row j+1 is set where mask[j] holds.
AoiArray(a, d) ==
    LET mask == AoiMask(a, d)
    IN  [j \in 1..Rows(d) |-> [k \in 1..Cols(d) |-> IF mask[j] THEN 1 ELSE 0]]

\* round(q) of Python for q = sqrt(d2) / CellSize: to the nearest integer,
\* ties to the even one.
RECURSIVE FloorRatio(_, _)
FloorRatio(m, d2) ==
    IF ((m + 1) * CellSize) * ((m + 1) * CellSize) > d2 THEN m
    ELSE FloorRatio(m + 1, d2)

PyRound(d2) ==
    LET m == FloorRatio(0, d2)
        mid == ((2 * m + 1) * CellSize) * ((2 * m + 1) * CellSize)
    IN  IF 4 * d2 > mid THEN m + 1
        ELSE IF 4 * d2 < mid THEN m
        ELSE IF m % 2 = 0 THEN m ELSE m + 1

Dist2(a, b) == (a[1] - b[1]) * (a[1] - b[1]) + (a[2] - b[2]) * (a[2] - b[2])

\* n_int = round(line_length / dem.res[0]); if n_int == 0: n_int = 1
NInt(a, b) == LET r == PyRound(Dist2(a, b)) IN IF r = 0 THEN 1 ELSE r

\* The denominator of the fractions below: n_int - 1 steps between samples.
Den(n) == Max(1, n - 1)

\* xy_pts: np.linspace(a, b, n) per coordinate.  Sample k (1-based) is
\* <<x, y>> * 1/Den(n); a single sample is the start a.
XyPts(a, b, n) ==
    [k \in 1..n |->
        <<a[1] * Den(n) + (k - 1) * (b[1] - a[1]),
          a[2] * Den(n) + (k - 1) * (b[2] - a[2])>>]

\* rasterio.transform.rowcol(dem.transform, x, y) of the point <<x, y>> / den:
\* the 0-based cell indices, floored.
RowCol(d, pt, den) ==
    <<(North(d) * den - pt[2]) \div (CellSize * den),
      pt[1] \div (CellSize * den)>>

Elevation(d, rc) == d[rc[1] + 1][rc[2] + 1]

\* z_int: the terrain under each sample of xy_pts
ZInt(d, pts) ==
    [k \in DOMAIN pts |-> Elevation(d, RowCol(d, pts[k], Den(Len(pts))))]

\* z_dir = np.linspace(z_int[0], z_int[-1], n_int), times Den(n_int)
ZDirFromZero(z) ==
    [k \in DOMAIN z |-> (k - 1) * z[Len(z)]]
ZDir(z) ==
    [k \in DOMAIN z |-> z[1] * Den(Len(z)) + (k - 1) * (z[Len(z)] - z[1])]

\* z_dir[z_dir > z_int] = z_int[z_dir > z_int], on values times Den(n_int)
ClipAgainstNext(zdir, zint) ==
    [k \in DOMAIN zdir |->
        LET g == zint[Min(k + 1, Len(zint))] * Den(Len(zint))
        IN  IF zdir[k] > g THEN g ELSE zdir[k]]
Clip(zdir, zint) ==
    [k \in DOMAIN zdir |->
        LET g == zint[k] * Den(Len(zint))
        IN  IF zdir[k] > g THEN g ELSE zdir[k]]

\* The elevation profile the length is taken over, from a to b, times
\* Den(n_int): lines 59-71 and 102-114.
Profile(d, a, b, topo) ==
    LET z == ZInt(d, XyPts(a, b, NInt(a, b)))
        zdir == ZDir(z)
    IN  IF topo THEN Clip(zdir, z) ELSE zdir

Abs(v) == IF v < 0 THEN 0 - v ELSE v

\* np.diff
Diff(s) == [k \in 1..(Len(s) - 1) |-> s[k + 1] - s[k]]

RECURSIVE SumTo(_, _)
SumTo(s, k) == IF k = 0 THEN 0 ELSE s[k] + SumTo(s, k - 1)
Sum(s) == SumTo(s, Len(s))

\* A length is held by its square, the fraction num / den in world units
\* squared; NaN is the undefined marker.
NaN == [nan |-> TRUE, num |-> 0, den |-> 1]
Length2(num, den) == [nan |-> FALSE, num |-> num, den |-> den]

\* Lines 73-75: sqrt(dx^2 + dy^2 + sum(|diff(z_dir)|)^2) for the profile
\* zdir (times den).  With doubled coordinates dx^2 + dy^2 is Dist2 / 4.
MapLength(a, b, zdir) ==
    LET den == Den(Len(zdir))
        dz == Diff(zdir)
        S == Sum([k \in DOMAIN dz |-> Abs(dz[k])])
    IN  Length2(Dist2(a, b) * den * den + 4 * S * S, 4 * den * den)

\* Lines 54-79 and 84: the value grid of one station's map
MapVal(d, a, st, topo) ==
    LET xy == XyDem(d)
        inside == AoiArray(a, d)
    IN  [j \in 1..Rows(d) |-> [k \in 1..Cols(d) |->
            IF inside[j][k] = 1
            THEN LET c == xy[(j - 1) * Cols(d) + k]
                 IN  MapLength(st, c, Profile(d, st, c, topo))
            ELSE NaN]]

\* The bag of the values of a sequence
BagOf(s) ==
    [v \in {s[k] : k \in DOMAIN s} |-> Cardinality({k \in DOMAIN s : s[k] = v})]

\* Lines 116-118: the sum over the segments of
\* sqrt(diff(x)^2 + diff(y)^2 + diff(z_dir)^2).  Every segment is
\* sqrt(Dist2 + 4 * dz^2) / (2 * den) for its step dz of the profile (times
\* den), so the sum is held as the bag of the radicands and the divisor.
PathLengthNoDiff(a, b, zdir) ==
    [scale |-> 2 * Den(Len(zdir)),
     terms |-> BagOf([k \in DOMAIN zdir |-> Dist2(a, b) + 4 * zdir[k] * zdir[k]])]
PathLength(a, b, zdir) ==
    LET dz == Diff(zdir)
    IN  [scale |-> 2 * Den(Len(zdir)),
         terms |-> BagOf([k \in DOMAIN dz |-> Dist2(a, b) + 4 * dz[k] * dz[k]])]

\* A path length is zero when the sum has no non-zero term.
IsZeroLength(p) == \A v \in DOMAIN p.terms : v = 0

\* Lines 95-120: M
Matrix(d, st, topo) ==
    [p \in DOMAIN st |-> [q \in DOMAIN st |->
        PathLength(st[p], st[q], Profile(d, st[p], st[q], topo))]]

\* ------------------------------------------------- spatial_distance inputs
Shapes == {rc \in (1..MaxCells) \X (1..MaxCells) : rc[1] * rc[2] <= MaxCells}

Grids(rc) == [1..rc[1] -> [1..rc[2] -> Elevations]]

\* The station sites of a DEM: the half-cell lattice inside the extent of the
\* cell centres, and one site beyond each side of it.
Sites(d) ==
    LET e == DemExtent(d)
    IN  ((e[1]..e[2]) \X (e[3]..e[4]))
          \cup {<<e[1] - 1, e[3]>>, <<e[2] + 1, e[4]>>,
                <<e[1], e[3] - 1>>, <<e[2], e[4] + 1>>}

\* Station lists are enumerated up to the order of the stations.
Leq(a, b) == a[1] < b[1] \/ (a[1] = b[1] /\ a[2] <= b[2])
StationLists(d) ==
    UNION {{st \in [1..n -> Sites(d)] :
              \A k \in 1..(n - 1) : Leq(st[k], st[k + 1])} : n \in StationCounts}

\* The areas of interest tried: none, the extent without its southmost or
\* northmost half cell, and one reaching beyond the extent.
Aois(d) ==
    LET e == DemExtent(d)
    IN  {[none |-> TRUE, ext |-> <<0, 0, 0, 0>>],
         [none |-> FALSE, ext |-> <<e[1], e[2], e[3] + 1, e[4]>>],
         [none |-> FALSE, ext |-> <<e[1], e[2], e[3], e[4] - 1>>],
         [none |-> FALSE, ext |-> <<e[1], e[2] + 1, e[3], e[4]>>]}

DistArgs ==
    /\ dem_array \in UNION {Grids(rc) : rc \in Shapes}
    /\ dem_nan \in {{}} \cup {{<<j, k>>} : j \in 1..Rows(dem_array), k \in 1..Cols(dem_array)}
    /\ dem_nan # {} => \A j \in 1..Rows(dem_array), k \in 1..Cols(dem_array) :
                          dem_array[j][k] = 0
    /\ stations \in StationLists(dem_array)
    /\ topography \in BOOLEAN
    /\ maps \in BOOLEAN
    /\ matrix \in BOOLEAN
    /\ aoi \in Aois(dem_array)

DistLocalsInit ==
    /\ pc_d = "start"
    /\ raised_d = ""
    /\ maps_out = <<>>
    /\ M = [none |-> TRUE, val |-> <<>>]

\* spatial_track is not running.
TrackIdle ==
    /\ data_shape = <<1, 1>>
    /\ dm_rows = 1
    /\ sampling_rate = 1
    /\ max_lag = 0
    /\ time_window = 1
    /\ overlap = 0
    /\ pc_t = "idle"
    /\ raised_t = ""
    /\ num_windows = 0
    /\ times = <<>>
    /\ i = 0
    /\ mean_coordinates = <<>>
    /\ sd_coordinates = <<>>
    /\ mean_amplitudes = <<>>
    /\ sd_amplitudes = <<>>
    /\ mean_variances = <<>>
    /\ sd_variances = <<>>
    /\ res_success = <<>>
    /\ results = NoResults

InitDist == DistArgs /\ DistLocalsInit /\ TrackIdle

distArgs == <<dem_array, dem_nan, stations, topography, maps, matrix, aoi>>

RaiseD(exc) ==
    /\ pc_d' = "raised"
    /\ raised_d' = exc

\* Lines 10-39, part 0: the checks of the input.
DistCheck ==
    /\ pc_d = "start"
    /\ IF dem_nan # {}
       THEN RaiseD("ValueError: DEM contains NaN values!")
       ELSE IF StationsOutside(stations, dem_array)
       THEN RaiseD("ValueError: Some station coordinates are outside DEM extent!")
       ELSE IF AoiBeyond(aoi, dem_array)
       THEN RaiseD("ValueError: AOI extent is beyond DEM extent!")
       ELSE /\ pc_d' = "maps"
            /\ UNCHANGED raised_d
    /\ UNCHANGED <<distArgs, maps_out, M, trackVars>>

\* Lines 41-86, part 1: the distance maps.
DistMaps ==
    /\ pc_d = "maps"
    /\ IF ~maps
       THEN /\ maps_out' = [p \in DOMAIN stations |-> [none |-> TRUE, val |-> <<>>]]
            /\ pc_d' = "matrix"
            /\ UNCHANGED raised_d
       ELSE IF ~MaskFits(dem_array)
       THEN /\ RaiseD("IndexError")
            /\ UNCHANGED maps_out
       ELSE /\ maps_out' = [p \in DOMAIN stations |->
                              [none |-> FALSE,
                               val |-> MapVal(dem_array, aoi, stations[p], topography)]]
            /\ pc_d' = "matrix"
            /\ UNCHANGED raised_d
    /\ UNCHANGED <<distArgs, M, trackVars>>

\* Lines 88-124, part 2: the station distance matrix, and the return.
DistMatrix ==
    /\ pc_d = "matrix"
    /\ M' = IF matrix
            THEN [none |-> FALSE, val |-> Matrix(dem_array, stations, topography)]
            ELSE [none |-> TRUE, val |-> <<>>]
    /\ pc_d' = "returned"
    /\ UNCHANGED <<distArgs, raised_d, maps_out, trackVars>>

NextDist == DistCheck \/ DistMaps \/ DistMatrix

SpecDist == InitDist /\ [][NextDist]_vars

\* ------------------------------------------------- claims on spatial_track
\* The precondition of the window schedule: 0 <= overlap < time_window <= T.
SchedulePre == 0 <= overlap /\ overlap < time_window /\ time_window <= T

\* The windows processed so far, in order (one entry of every list each).
Processed == mean_amplitudes

\* C1: under 0 <= overlap < time_window <= T the loop runs over exactly
\* floor((T - time_window) / (time_window - overlap)) + 1 windows, window k
\* (0-based) is [k*(time_window-overlap), k*(time_window-overlap)+time_window),
\* and time_window=100, overlap=50, T=1000 gives 19 windows.
C1_WindowSchedule ==
    /\ NumWindows(1000, 100, 50) = 19
    /\ (SchedulePre /\ pc_t \in {"loop", "returned"}) =>
         /\ num_windows = ((T - time_window) \div (time_window - overlap)) + 1
         /\ \A k \in 1..Len(Processed) :
              /\ Processed[k].window = k - 1
              /\ Processed[k].start_idx = (k - 1) * (time_window - overlap)
              /\ Processed[k].end_idx = Processed[k].start_idx + time_window
         /\ pc_t = "returned" =>
              Len(results.mean.a_0) = ((T - time_window) \div (time_window - overlap)) + 1

\* A run with overlapping windows whose last window ends before the signal does.
C1_Witness ==
    /\ pc_t = "returned"
    /\ SchedulePre
    /\ overlap > 0
    /\ (T - time_window) % (time_window - overlap) # 0
    /\ Len(results.mean.a_0) >= 2
    /\ Len(results.mean.a_0) = num_windows

\* C2: whenever time_window > T the call raises: it never returns a result
\* and never processes a window.
C2_DegenerateRaises ==
    time_window > T => (pc_t # "returned" /\ Processed = <<>>)

\* C3: the result's time sequence has one entry per processed window, and
\* time[k] is the start time start_idx / sampling_rate of the window that
\* the entries at index k were computed from.
C3_TimeIsWindowStart ==
    pc_t = "returned" =>
      /\ Len(results.time) = Len(results.mean.a_0)
      /\ \A k \in 1..Len(results.time) :
           results.time[k][1] * sampling_rate
             = results.mean.a_0[k].start_idx * results.time[k][2]

\* The fields of the result beyond the documented time / mean / sd series.
FlagFields ==
    (DOMAIN results \ {"time", "mean", "sd"})
      \cup (DOMAIN results.mean \ {"x", "y", "a_0", "var"})
      \cup (DOMAIN results.sd \ {"x", "y", "a_0", "var"})

\* C8: a window whose optimizer run did not converge still contributes the
\* statistics of the optimizer's iterate, and the result carries a warning or
\* flag that tells it from a converged window.
C8_NonConvergenceSurfaced ==
    pc_t = "returned" =>
      \A k \in 1..Len(res_success) :
         ~res_success[k] =>
            /\ results.mean.x[k].of = "res.x"
            /\ FlagFields # {}

\* C10: under 0 <= overlap < time_window <= T every processed window lies
\* inside the signal and its slice holds exactly time_window samples.
C10_WindowsInside ==
    SchedulePre =>
      \A k \in 1..Len(Processed) :
         /\ Processed[k].start_idx >= 0
         /\ Processed[k].end_idx <= T
         /\ Processed[k].size = time_window

\* A run of three or more overlapping windows whose last window ends exactly
\* at the last sample.
C10_Witness ==
    /\ pc_t = "returned"
    /\ SchedulePre
    /\ overlap > 0
    /\ Len(Processed) >= 3
    /\ Processed[Len(Processed)].end_idx = T

\* --------------------------------------------- claims on spatial_distance
\* The extent of the DEM as spatial_distance prints it: from the centre of
\* the first cell to the centre of the last one, on each axis.
InExtent(pt) ==
    /\ 2 * pt[1] >= CellSize
    /\ 2 * pt[1] <= 2 * Cols(dem_array) * CellSize - CellSize
    /\ 2 * pt[2] >= CellSize
    /\ 2 * pt[2] <= 2 * Rows(dem_array) * CellSize - CellSize

SomeStationOutside == \E p \in DOMAIN stations : ~InExtent(stations[p])

NothingComputed == maps_out = <<>> /\ M.none

StationError == "ValueError: Some station coordinates are outside DEM extent!"
NanError == "ValueError: DEM contains NaN values!"

\* C4: a station outside the DEM extent makes spatial_distance raise its
\* invalid-input error with no map and no matrix computed, and stations that
\* all lie inside the extent never raise the station error.
C4_StationsOutsideRaise ==
    pc_d \notin {"idle", "start"} =>
      /\ SomeStationOutside =>
           /\ pc_d = "raised"
           /\ raised_d \in {StationError, NanError}
           /\ (dem_nan = {} => raised_d = StationError)
           /\ NothingComputed
      /\ ~SomeStationOutside => raised_d # StationError

\* Two stations, one inside the extent and one outside it, with maps and
\* matrix both asked for: the call has raised the station error.
C4_Witness ==
    /\ pc_d = "raised"
    /\ raised_d = StationError
    /\ Len(stations) = 2
    /\ \E p, q \in DOMAIN stations : InExtent(stations[p]) /\ ~InExtent(stations[q])
    /\ maps /\ matrix

\* The inputs pass part 0: no NaN, stations and AOI inside the extent.
ValidInputs ==
    /\ pc_d # "idle"
    /\ dem_nan = {}
    /\ ~SomeStationOutside
    /\ aoi.none \/ (InExtent(<<aoi.ext[1], aoi.ext[3]>>) /\ InExtent(<<aoi.ext[2], aoi.ext[4]>>))

\* The centre of cell (j, k), 1-based, and whether it lies in the AOI.
Centre(j, k) ==
    <<(k - 1) * CellSize + CellSize \div 2,
      Rows(dem_array) * CellSize - (j - 1) * CellSize - CellSize \div 2>>
CentreInAoi(j, k) ==
    \/ aoi.none
    \/ /\ Centre(j, k)[1] >= aoi.ext[1] /\ Centre(j, k)[1] <= aoi.ext[2]
       /\ Centre(j, k)[2] >= aoi.ext[3] /\ Centre(j, k)[2] <= aoi.ext[4]

\* C5: in map mode with valid inputs every station gets a map of the DEM's
\* shape whose cells outside the AOI are NaN and whose cells inside the AOI
\* hold a finite distance.
C5_MapInsideFiniteOutsideNaN ==
    (ValidInputs /\ maps /\ pc_d \notin {"start", "maps"}) =>
      /\ pc_d # "raised"
      /\ Len(maps_out) = Len(stations)
      /\ \A p \in DOMAIN maps_out :
           /\ ~maps_out[p].none
           /\ DOMAIN maps_out[p].val = 1..Rows(dem_array)
           /\ \A j \in 1..Rows(dem_array) :
                /\ DOMAIN maps_out[p].val[j] = 1..Cols(dem_array)
                /\ \A k \in 1..Cols(dem_array) :
                     maps_out[p].val[j][k].nan <=> ~CentreInAoi(j, k)

\* C6: the matrix returned is N x N for the N stations and every diagonal
\* entry is exactly 0.
C6_DiagonalZero ==
    (pc_d = "returned" /\ matrix) =>
      /\ ~M.none
      /\ DOMAIN M.val = DOMAIN stations
      /\ \A p \in DOMAIN stations :
           /\ DOMAIN M.val[p] = DOMAIN stations
           /\ IsZeroLength(M.val[p][p])

\* A matrix of two stations, the first on ground above zero, with and
\* without the topography correction.
C6_Witness ==
    /\ pc_d = "returned"
    /\ matrix
    /\ Len(stations) = 2
    /\ stations[1] # stations[2]
    /\ Elevation(dem_array, RowCol(dem_array, stations[1], 1)) > 0
    /\ ~IsZeroLength(M.val[1][2])

Flat == \A j \in 1..Rows(dem_array), k \in 1..Cols(dem_array) :
           dem_array[j][k] = dem_array[1][1]

\* The straight-line profile from a to b and the terrain under it.
Straight(a, b) == ZDir(ZInt(dem_array, XyPts(a, b, NInt(a, b))))
Terrain(a, b) == ZInt(dem_array, XyPts(a, b, NInt(a, b)))

InsideLists(d) == {st \in StationLists(d) : ~StationsOutside(st, d)}

====
